---- MODULE Spec2Model ----
(***************************************************************************)
(* Model of aimaker: utils.py (text utilities), client.py (OpenAIWrapper)  *)
(* and main.py (PythonFileScript, PythonPackage).                          *)
(*                                                                         *)
(* Text is a sequence of tokens.  For extract_substring the tokens are     *)
(* plain characters; for model responses a token is one lexical line of    *)
(* the response: a code fence, the language tag, a line of prose, or a     *)
(* line of Python at an indentation depth.                                 *)
(*                                                                         *)
(* Spec is one run of the program on one package; SpecWorkspace is run     *)
(* after run on one file system; SpecExtract and SpecName apply the two    *)
(* utility functions to every argument within the bounds.                  *)
(***************************************************************************)
EXTENDS Integers, Sequences, FiniteSets, TLC

VARIABLES
    clock,            \* wall clock in seconds (time.strftime("%Y%m%d-%H%M%S"))
    ws,               \* entries of the workspace root (os.listdir)
    backup,           \* backup root: timestamp -> backup subdirectory
    files,            \* files below the package and tests directories
    pc,               \* position of the single task of execution
    op,               \* public method in progress ("" when none)
    scripts,          \* PythonPackage._scripts
    my_script,        \* local of PythonPackage.add_function
    python_function,  \* local of PythonFileScript.add_function
    wi,               \* loop index of write_files
    proc,             \* the test-runner subprocess
    client,           \* OpenAIWrapper: requests sent, lines logged
    call,             \* the last call of OpenAIWrapper.complete
    gen,              \* the last call of generate_python_code
    ret,              \* how the last public method ended
    calls,            \* add_function calls made on the package
    n_ok,             \* add_function calls that returned normally
    fn_in,            \* argument of a utility function under check
    fn_out            \* its result

vars == <<clock, ws, backup, files, pc, op, scripts, my_script,
          python_function, wi, proc, client, call, gen, ret,
          calls, n_ok, fn_in, fn_out>>

progvars == <<clock, ws, backup, files, pc, op, scripts, my_script,
              python_function, wi, proc, client, call, gen, ret,
              calls, n_ok>>

(***************************************************************************)
(* Bounds                                                                  *)
(***************************************************************************)
MaxStrLen == 4
MaxMarkerLen == 2
MaxLines == 3
MaxCalls == 2
MaxClock == 1

(***************************************************************************)
(* Sequences helpers                                                       *)
(***************************************************************************)
RECURSIVE SeqsUpTo(_, _)
SeqsUpTo(S, n) ==
    IF n = 0 THEN {<<>>}
    ELSE LET shorter == SeqsUpTo(S, n - 1)
         IN  shorter \cup {Append(q, x) : q \in {r \in shorter : Len(r) = n - 1}, x \in S}

Min(S) == CHOOSE x \in S : \A y \in S : x <= y

(***************************************************************************)
(* utils.py                                                                *)
(***************************************************************************)
\* str.find(sub, start): lowest 0-based index >= start where sub occurs, or -1.
find(s, sub, start) ==
    LET from == IF start < 0 THEN (IF Len(s) + start < 0 THEN 0 ELSE Len(s) + start)
                ELSE start
        hits == {i \in from .. (Len(s) - Len(sub)) :
                    \A k \in 1 .. Len(sub) : s[i + k] = sub[k]}
    IN  IF hits = {} THEN -1 ELSE Min(hits)

\* s[a:b] for 0 <= a
slice(s, a, b) == SubSeq(s, a + 1, b)

\* As extract_substring with the end marker searched from the start of s.
extract_substring_from0(s, start_marker, end_marker) ==
    LET start == find(s, start_marker, 0) + Len(start_marker)
        end   == find(s, end_marker, 0)
    IN  IF start >= Len(start_marker) /\ end # -1
        THEN slice(s, start, end)
        ELSE s

extract_substring(s, start_marker, end_marker) ==
    LET start == find(s, start_marker, 0) + Len(start_marker)
        end   == find(s, end_marker, start)
    IN  IF start >= Len(start_marker) /\ end # -1
        THEN slice(s, start, end)
        ELSE s

\* Lines of a response.  k: kind, n: name, d: indentation depth.
Fence == [k |-> "fence", n |-> "", d |-> 0]
Tag   == [k |-> "tag", n |-> "python", d |-> 0]
Prose == [k |-> "prose", n |-> "", d |-> 0]
Def(n, d)      == [k |-> "def", n |-> n, d |-> d]
AsyncDef(n, d) == [k |-> "async", n |-> n, d |-> d]
Class(n, d)    == [k |-> "class", n |-> n, d |-> d]
Stmt(d)        == [k |-> "stmt", n |-> "", d |-> d]

BlockOpeners == {"def", "async", "class"}

\* ast.parse(code) succeeds: no fence or prose, and the indentation is that
\* of a Python module (a deeper line only directly under a block opener).
\* The bare word python is an expression statement.
ast_parse_ok(code) ==
    /\ \A i \in 1 .. Len(code) : code[i].k \notin {"fence", "prose"}
    /\ Len(code) > 0 => code[1].d = 0
    /\ \A i \in 1 .. Len(code) - 1 :
          /\ code[i + 1].d <= code[i].d + 1
          /\ code[i + 1].d = code[i].d + 1 => code[i].k \in BlockOpeners

NoneVal == "<None>"

\* FunctionNameCollector: visit_FunctionDef appends the name and
\* generic_visit descends, so every def at every depth is collected in
\* source order; async defs and classes are descended but not collected.
RECURSIVE function_names(_)
function_names(code) ==
    IF code = <<>> THEN <<>>
    ELSE (IF Head(code).k = "def" THEN <<Head(code).n>> ELSE <<>>)
         \o function_names(Tail(code))

\* As extract_single_function_name with a collector that does not descend
\* (no generic_visit): only the defs at depth 0 are collected.
RECURSIVE top_level_names(_)
top_level_names(code) ==
    IF code = <<>> THEN <<>>
    ELSE (IF Head(code).k = "def" /\ Head(code).d = 0 THEN <<Head(code).n>> ELSE <<>>)
         \o top_level_names(Tail(code))

extract_single_function_name_toplevel(code) ==
    IF ~ast_parse_ok(code)
    THEN [raised |-> "SyntaxError", value |-> NoneVal]
    ELSE LET names == top_level_names(code)
         IN  IF Len(names) = 1
             THEN [raised |-> "", value |-> names[1]]
             ELSE [raised |-> "", value |-> NoneVal]

extract_single_function_name(code) ==
    IF ~ast_parse_ok(code)
    THEN [raised |-> "SyntaxError", value |-> NoneVal]
    ELSE LET names == function_names(code)
         IN  IF Len(names) = 1
             THEN [raised |-> "", value |-> names[1]]
             ELSE [raised |-> "", value |-> NoneVal]

(***************************************************************************)
(* client.py                                                               *)
(***************************************************************************)
NoUnit == [name |-> "", content |-> <<>>]

\* A chat message; its content is kept structured: the template used, the
\* goal, the package and module named in it and the unit quoted in it.
Message(role, template, goal, package, module, unit) ==
    [role |-> role, template |-> template, goal |-> goal,
     package |-> package, module |-> module, unit |-> unit]

\* The wrapper's state: requests sent to the provider, lines written to
\* its log file.
NewClient == [requests |-> 0, logged |-> 0]

NoEntry == [level |-> "", messages |-> <<>>, text |-> <<>>, error |-> ""]

\* As complete with one more request sent after a failure.
complete_retry(cl, messages, out) ==
    IF out.ok
    THEN [client |-> [requests |-> cl.requests + 1, logged |-> cl.logged + 1],
          entry |-> [level |-> "INFO", messages |-> messages,
                     text |-> out.text, error |-> ""],
          raised |-> "", returns |-> TRUE, returned |-> out.text]
    ELSE [client |-> [requests |-> cl.requests + 2, logged |-> cl.logged + 1],
          entry |-> [level |-> "ERROR", messages |-> <<>>,
                     text |-> <<>>, error |-> out.err],
          raised |-> out.err, returns |-> FALSE, returned |-> <<>>]

\* OpenAIWrapper.complete against a provider that answers `out`; entry is
\* the line the call writes to the log.
complete(cl, messages, out) ==
    IF out.ok
    THEN [client |-> [requests |-> cl.requests + 1, logged |-> cl.logged + 1],
          entry |-> [level |-> "INFO", messages |-> messages,
                     text |-> out.text, error |-> ""],
          raised |-> "", returns |-> TRUE, returned |-> out.text]
    ELSE [client |-> [requests |-> cl.requests + 1, logged |-> cl.logged + 1],
          entry |-> [level |-> "ERROR", messages |-> <<>>,
                     text |-> <<>>, error |-> out.err],
          raised |-> out.err, returns |-> FALSE, returned |-> <<>>]

(***************************************************************************)
(* main.py: PythonFileScript                                               *)
(***************************************************************************)
StartMarker == <<Fence, Tag>>
EndMarker   == <<Fence>>

generate_python_code(cl, messages, out) ==
    LET c == complete(cl, messages, out)
    IN  IF c.raised # ""
        THEN [c |-> c, messages |-> messages, extracted |-> FALSE, python_script |-> <<>>,
              raised |-> c.raised, returns |-> FALSE, unit |-> NoUnit]
        ELSE LET python_script == extract_substring(c.returned, StartMarker, EndMarker)
                 e == extract_single_function_name(python_script)
                 function_name == IF e.raised # "" THEN "lol" ELSE e.value
             IN  IF function_name = NoneVal
                 THEN [c |-> c, messages |-> messages, extracted |-> TRUE, python_script |-> python_script,
                       raised |-> "ValueError", returns |-> FALSE, unit |-> NoUnit]
                 ELSE [c |-> c, messages |-> messages, extracted |-> TRUE, python_script |-> python_script,
                       raised |-> "", returns |-> TRUE,
                       unit |-> [name |-> function_name, content |-> python_script]]

generate_python_function(cl, function_goal, out) ==
    generate_python_code(cl,
        << Message("system", "persona", "", "", "", NoUnit),
           Message("user", "write_function", function_goal, "", "", NoUnit) >>,
        out)

generate_python_test(cl, module_name, function_to_test, script_package_name, out) ==
    generate_python_code(cl,
        << Message("system", "persona", "", "", "", NoUnit),
           Message("user", "code_to_test", "", script_package_name, module_name,
                   function_to_test),
           Message("user", "write_test", "", "", "", function_to_test) >>,
        out)

NoScript == [module_name |-> "", functions |-> <<>>]

RECURSIVE function_contents(_)
function_contents(functions) ==
    IF functions = <<>> THEN <<>>
    ELSE Head(functions).function.content \o function_contents(Tail(functions))

RECURSIVE test_contents(_)
test_contents(functions) ==
    IF functions = <<>> THEN <<>>
    ELSE Head(functions).test.content \o test_contents(Tail(functions))

(***************************************************************************)
(* The file system                                                         *)
(***************************************************************************)
PackageName == "testpackage"
TestsDir    == "tests"

NoFile    == [exists |-> FALSE, content |-> <<>>]
File(c)   == [exists |-> TRUE, content |-> c]

ModulePath(module_name) == [dir |-> PackageName, prefix |-> "", name |-> module_name]
TestPath(module_name)   == [dir |-> TestsDir, prefix |-> "test_", name |-> module_name]
InitPath(dir)           == [dir |-> dir, prefix |-> "", name |-> "__init__"]

FilePaths == {ModulePath("main"), TestPath("main"),
              InitPath(PackageName), InitPath(TestsDir)}

NoDir       == [exists |-> FALSE, entries |-> {}]
Dir(names)  == [exists |-> TRUE, entries |-> names]

(***************************************************************************)
(* The environment: what the provider answers, what the runner reports     *)
(***************************************************************************)
Fenced(code) == <<Fence, Tag>> \o code \o <<Fence>>

Responses ==
    { Fenced(<<Def("f", 0)>>),                       \* one def, fenced
      <<Prose>> \o Fenced(<<Def("g", 0)>>) \o <<Prose>>,  \* prose around it
      <<Def("g", 0)>>,                               \* bare code, no fence
      Fenced(<<Def("f", 0), Def("g", 1)>>),          \* a nested helper
      Fenced(<<Def("f", 0), Def("g", 0)>>),          \* two top-level defs
      Fenced(<<Stmt(0)>>),                           \* no def
      <<Fence, Tag, Def("f", 0)>>,                   \* fence never closed
      <<Prose>> }                                    \* no code at all

ProviderErrors == {"APIConnectionError", "RateLimitError"}

ProviderOutcomes ==
    {[ok |-> TRUE, text |-> r, err |-> ""] : r \in Responses}
    \cup {[ok |-> FALSE, text |-> <<>>, err |-> e] : e \in ProviderErrors}

Goals == {"list all files in a directory"}

RunnerOutcomes == {[returncode |-> 0, stdout |-> "passed"],
                   [returncode |-> 1, stdout |-> "failed"]}

NoProc == [state |-> "none", returncode |-> 0, stdout |-> ""]
NoOutcome == [ok |-> TRUE, text |-> <<>>, err |-> ""]
NoCall == [n |-> 0, messages |-> <<>>, out |-> NoOutcome, entry |-> NoEntry,
           raised |-> "", returns |-> FALSE, returned |-> <<>>]
NoGen  == [extracted |-> FALSE, python_script |-> <<>>, raised |-> "",
           returns |-> FALSE, unit |-> NoUnit]
NoRet  == [op |-> "", raised |-> "", at |-> "", logged |-> ""]

(***************************************************************************)
(* main.py: PythonPackage                                                  *)
(***************************************************************************)
fsvars   == <<ws, backup, files>>
genvars  == <<client, call, gen>>
utilvars == <<fn_in, fn_out>>

\* The clock is read by init_workspace alone: seconds pass between runs.
Tick ==
    /\ pc = "none"
    /\ clock < MaxClock
    /\ clock' = clock + 1
    /\ UNCHANGED <<fsvars, pc, op, scripts, my_script, python_function, wi, proc,
                   genvars, ret, calls, n_ok, utilvars>>

\* PythonPackage.__init__ up to the call of init_workspace: a new program run.
PythonPackage ==
    /\ pc = "none"
    /\ pc' = "init"
    /\ op' = "PythonPackage"
    /\ client' = NewClient
    /\ call' = NoCall
    /\ gen' = NoGen
    /\ scripts' = <<>>
    /\ calls' = 0
    /\ n_ok' = 0
    /\ UNCHANGED <<clock, fsvars, my_script, python_function, wi, proc, ret,
                   utilvars>>

\* os.makedirs(backup_subdirectory) has no exist_ok: it raises when the
\* directory named by the current second is already there.
init_workspace ==
    /\ pc = "init"
    /\ IF ws # {} /\ backup[clock].exists
       THEN /\ pc' = "none"
            /\ op' = ""
            /\ ret' = [op |-> "PythonPackage", raised |-> "FileExistsError",
                       at |-> "init_workspace", logged |-> ""]
            /\ UNCHANGED fsvars
       ELSE /\ backup' = IF ws # {} THEN [backup EXCEPT ![clock] = Dir(ws)]
                         ELSE backup
            /\ ws' = {PackageName, TestsDir}
            /\ files' = [p \in FilePaths |->
                            IF p \in {InitPath(PackageName), InitPath(TestsDir)}
                            THEN File(<<>>) ELSE NoFile]
            /\ pc' = "idle"
            /\ op' = ""
            /\ ret' = [op |-> "PythonPackage", raised |-> "", at |-> "", logged |-> ""]
    /\ UNCHANGED <<clock, scripts, my_script, python_function, wi, proc,
                   genvars, calls, n_ok, utilvars>>

\* What the caller of generate_python_code can see of the call: the client
\* after it, the call of complete it made, and how it ended.
Observe(g, out) ==
    /\ client' = g.c.client
    /\ call' = [n |-> call.n + 1, messages |-> g.messages, out |-> out,
                entry |-> g.c.entry, raised |-> g.c.raised,
                returns |-> g.c.returns, returned |-> g.c.returned]
    /\ gen' = [extracted |-> g.extracted, python_script |-> g.python_script,
               raised |-> g.raised, returns |-> g.returns, unit |-> g.unit]

\* PythonPackage.add_function down to the end of generate_python_function.
AddFunction_GenerateFunction ==
    /\ pc = "idle"
    /\ calls < MaxCalls
    /\ \E function_goal \in Goals, out \in ProviderOutcomes :
        LET script == [module_name |-> "main", functions |-> <<>>]
            g == generate_python_function(client, function_goal, out)
        IN  /\ Observe(g, out)
            /\ calls' = calls + 1
            /\ IF g.raised # ""
               THEN /\ pc' = "idle"
                    /\ op' = ""
                    /\ my_script' = NoScript
                    /\ python_function' = NoUnit
                    /\ ret' = [op |-> "add_function", raised |-> g.raised,
                               at |-> "generate_python_function", logged |-> ""]
               ELSE /\ pc' = "generate_python_test"
                    /\ op' = "add_function"
                    /\ my_script' = script
                    /\ python_function' = g.unit
                    /\ ret' = NoRet
    /\ UNCHANGED <<clock, fsvars, scripts, wi, proc, n_ok, utilvars>>

\* As AddFunction_GenerateTest with the script put on the list before the
\* test is generated.
AddFunction_GenerateTest_append_first ==
    /\ pc = "generate_python_test"
    /\ \E out \in ProviderOutcomes :
        LET g == generate_python_test(client, my_script.module_name,
                                      python_function, PackageName, out)
        IN  /\ Observe(g, out)
            /\ IF g.raised # ""
               THEN /\ ret' = [op |-> "add_function", raised |-> g.raised,
                               at |-> "generate_python_test", logged |-> ""]
                    /\ scripts' = Append(scripts, my_script)
                    /\ UNCHANGED n_ok
               ELSE /\ scripts' = Append(scripts,
                          [my_script EXCEPT !.functions =
                              Append(@, [function |-> python_function,
                                         test |-> g.unit])])
                    /\ n_ok' = n_ok + 1
                    /\ ret' = [op |-> "add_function", raised |-> "", at |-> "",
                               logged |-> ""]
    /\ pc' = "idle"
    /\ op' = ""
    /\ my_script' = NoScript
    /\ python_function' = NoUnit
    /\ UNCHANGED <<clock, fsvars, wi, proc, calls, utilvars>>

\* As AddFunction_GenerateTest with the suite added to the script already
\* on the list, when there is one, instead of to a script of its own.
AddFunction_GenerateTest_reuse_script ==
    /\ pc = "generate_python_test"
    /\ \E out \in ProviderOutcomes :
        LET g == generate_python_test(client, my_script.module_name,
                                      python_function, PackageName, out)
            suite == [function |-> python_function, test |-> g.unit]
        IN  /\ Observe(g, out)
            /\ IF g.raised # ""
               THEN /\ ret' = [op |-> "add_function", raised |-> g.raised,
                               at |-> "generate_python_test", logged |-> ""]
                    /\ UNCHANGED <<scripts, n_ok>>
               ELSE /\ scripts' =
                          IF scripts = <<>>
                          THEN <<[my_script EXCEPT !.functions = Append(@, suite)]>>
                          ELSE [scripts EXCEPT ![Len(scripts)].functions =
                                                  Append(@, suite)]
                    /\ n_ok' = n_ok + 1
                    /\ ret' = [op |-> "add_function", raised |-> "", at |-> "",
                               logged |-> ""]
    /\ pc' = "idle"
    /\ op' = ""
    /\ my_script' = NoScript
    /\ python_function' = NoUnit
    /\ UNCHANGED <<clock, fsvars, wi, proc, calls, utilvars>>

\* generate_python_test, then the two appends (main.py lines 90 and 175).
AddFunction_GenerateTest ==
    /\ pc = "generate_python_test"
    /\ \E out \in ProviderOutcomes :
        LET g == generate_python_test(client, my_script.module_name,
                                      python_function, PackageName, out)
        IN  /\ Observe(g, out)
            /\ IF g.raised # ""
               THEN /\ ret' = [op |-> "add_function", raised |-> g.raised,
                               at |-> "generate_python_test", logged |-> ""]
                    /\ UNCHANGED <<scripts, n_ok>>
               ELSE /\ scripts' = Append(scripts,
                          [my_script EXCEPT !.functions =
                              Append(@, [function |-> python_function,
                                         test |-> g.unit])])
                    /\ n_ok' = n_ok + 1
                    /\ ret' = [op |-> "add_function", raised |-> "", at |-> "", logged |-> ""]
    /\ pc' = "idle"
    /\ op' = ""
    /\ my_script' = NoScript
    /\ python_function' = NoUnit
    /\ UNCHANGED <<clock, fsvars, wi, proc, calls, utilvars>>

\* write_files called by the user of the package.
write_files ==
    /\ pc = "idle"
    /\ op' = "write_files"
    /\ wi' = 1
    /\ pc' = IF scripts = <<>> THEN "write_done" ELSE "write_module"
    /\ call' = [NoCall EXCEPT !.n = call.n]
    /\ gen' = NoGen
    /\ ret' = NoRet
    /\ UNCHANGED <<clock, fsvars, scripts, my_script, python_function, proc,
                   client, calls, n_ok, utilvars>>

\* execute_tests: its first statement is await self.write_files().
execute_tests ==
    /\ pc = "idle"
    /\ op' = "execute_tests"
    /\ wi' = 1
    /\ pc' = IF scripts = <<>> THEN "write_done" ELSE "write_module"
    /\ call' = [NoCall EXCEPT !.n = call.n]
    /\ gen' = NoGen
    /\ ret' = NoRet
    /\ UNCHANGED <<clock, fsvars, scripts, my_script, python_function, proc,
                   client, calls, n_ok, utilvars>>

\* write_to_file, first file: open(script_filepath, "w") and the writes.
write_to_file_module ==
    /\ pc = "write_module"
    /\ files' = [files EXCEPT ![ModulePath(scripts[wi].module_name)] =
                    File(function_contents(scripts[wi].functions))]
    /\ pc' = "write_test"
    /\ UNCHANGED <<clock, ws, backup, op, scripts, my_script, python_function, wi,
                   proc, genvars, ret, calls, n_ok, utilvars>>

\* write_to_file, second file, and the next round of the loop of write_files.
write_to_file_test ==
    /\ pc = "write_test"
    /\ files' = [files EXCEPT ![TestPath(scripts[wi].module_name)] =
                    File(test_contents(scripts[wi].functions))]
    /\ wi' = wi + 1
    /\ pc' = IF wi + 1 > Len(scripts) THEN "write_done" ELSE "write_module"
    /\ UNCHANGED <<clock, ws, backup, op, scripts, my_script, python_function,
                   proc, genvars, ret, calls, n_ok, utilvars>>

write_files_return ==
    /\ pc = "write_done"
    /\ op = "write_files"
    /\ pc' = "idle"
    /\ op' = ""
    /\ ret' = [op |-> "write_files", raised |-> "", at |-> "", logged |-> ""]
    /\ wi' = 1
    /\ UNCHANGED <<clock, fsvars, scripts, my_script, python_function, proc,
                   genvars, calls, n_ok, utilvars>>

create_subprocess_exec ==
    /\ pc = "write_done"
    /\ op = "execute_tests"
    /\ proc' = [state |-> "running", returncode |-> 0, stdout |-> ""]
    /\ pc' = "communicate"
    /\ UNCHANGED <<clock, fsvars, op, scripts, my_script, python_function, wi,
                   genvars, ret, calls, n_ok, utilvars>>

\* The runner, a process of its own: it leaves its cache directory in its
\* working directory and exits with a report.
pytest ==
    /\ proc.state = "running"
    /\ \E r \in RunnerOutcomes :
          proc' = [state |-> "exited", returncode |-> r.returncode,
                   stdout |-> r.stdout]
    /\ ws' = ws \cup {".pytest_cache"}
    /\ UNCHANGED <<clock, backup, files, pc, op, scripts, my_script,
                   python_function, wi, genvars, ret, calls, n_ok, utilvars>>

\* As communicate without the wait for the runner to exit.
communicate_nowait ==
    /\ pc = "communicate"
    /\ pc' = "idle"
    /\ op' = ""
    /\ ret' = [op |-> "execute_tests", raised |-> "", at |-> "", logged |-> proc.stdout]
    /\ proc' = NoProc
    /\ wi' = 1
    /\ UNCHANGED <<clock, fsvars, scripts, my_script, python_function,
                   genvars, calls, n_ok, utilvars>>

\* await process.communicate(), the logging of stdout and the return.
communicate ==
    /\ pc = "communicate"
    /\ proc.state = "exited"
    /\ pc' = "idle"
    /\ op' = ""
    /\ ret' = [op |-> "execute_tests", raised |-> "", at |-> "", logged |-> proc.stdout]
    /\ proc' = NoProc
    /\ wi' = 1
    /\ UNCHANGED <<clock, fsvars, scripts, my_script, python_function,
                   genvars, calls, n_ok, utilvars>>

\* The program ends; the package object is gone, the file system stays.
Exit ==
    /\ pc = "idle"
    /\ pc' = "none"
    /\ scripts' = <<>>
    /\ client' = NewClient
    /\ call' = NoCall
    /\ gen' = NoGen
    /\ ret' = NoRet
    /\ calls' = 0
    /\ n_ok' = 0
    /\ proc' = NoProc
    /\ UNCHANGED <<clock, fsvars, op, my_script, python_function, wi, utilvars>>

OldEntries == {"notes.txt"}

ProgInit ==
    /\ clock = 0
    /\ ws \in SUBSET OldEntries
    /\ backup = [t \in 0 .. MaxClock |-> NoDir]
    /\ files = [p \in FilePaths |-> NoFile]
    /\ pc = "none"
    /\ op = ""
    /\ scripts = <<>>
    /\ my_script = NoScript
    /\ python_function = NoUnit
    /\ wi = 1
    /\ proc = NoProc
    /\ client = NewClient
    /\ call = NoCall
    /\ gen = NoGen
    /\ ret = NoRet
    /\ calls = 0
    /\ n_ok = 0

Init ==
    /\ ProgInit
    /\ fn_in = <<>>
    /\ fn_out = <<>>

\* One run of the program: the package is built once, then used.
Next ==
    \/ PythonPackage
    \/ init_workspace
    \/ AddFunction_GenerateFunction
    \/ AddFunction_GenerateTest
    \/ write_files
    \/ execute_tests
    \/ write_to_file_module
    \/ write_to_file_test
    \/ write_files_return
    \/ create_subprocess_exec
    \/ pytest
    \/ communicate

Spec == Init /\ [][Next]_vars

\* Run after run on one file system, each run building the package and
\* running the tests of what it holds.
NextWorkspace ==
    \/ Tick
    \/ PythonPackage
    \/ init_workspace
    \/ execute_tests
    \/ create_subprocess_exec
    \/ pytest
    \/ communicate
    \/ Exit

SpecWorkspace == Init /\ [][NextWorkspace]_vars

(***************************************************************************)
(* The utility functions on their own                                      *)
(***************************************************************************)
Chars   == {"a", "b"}
Strings == SeqsUpTo(Chars, MaxStrLen)
Markers == SeqsUpTo(Chars, MaxMarkerLen)

Lines == {Def("f", 0), Def("g", 0), Def("g", 1), AsyncDef("h", 0),
          Class("C", 0), Stmt(0), Stmt(1), Fence}
Sources == SeqsUpTo(Lines, MaxLines)

ProgIdle == ProgInit /\ ws = {}

InitExtract ==
    /\ ProgIdle
    /\ fn_in \in [s : Strings, start_marker : Markers, end_marker : Markers]
    /\ fn_out = [done |-> FALSE, value |-> <<>>]

call_extract_substring ==
    /\ ~fn_out.done
    /\ fn_out' = [done |-> TRUE,
                  value |-> extract_substring(fn_in.s, fn_in.start_marker,
                                              fn_in.end_marker)]
    /\ UNCHANGED <<progvars, fn_in>>

SpecExtract == InitExtract /\ [][call_extract_substring]_vars

InitName ==
    /\ ProgIdle
    /\ fn_in \in [code : Sources]
    /\ fn_out = [done |-> FALSE, raised |-> "", value |-> NoneVal]

call_extract_single_function_name ==
    /\ ~fn_out.done
    /\ LET r == extract_single_function_name(fn_in.code)
       IN  fn_out' = [done |-> TRUE, raised |-> r.raised, value |-> r.value]
    /\ UNCHANGED <<progvars, fn_in>>

SpecName == InitName /\ [][call_extract_single_function_name]_vars

(***************************************************************************)
(* Properties                                                              *)
(***************************************************************************)
\* every unit held by a suite of a script on the list
UnitsOf(script) ==
    UNION {{script.functions[j].function, script.functions[j].test} :
              j \in 1 .. Len(script.functions)}

Units == UNION {UnitsOf(scripts[i]) : i \in 1 .. Len(scripts)}

\* the lines of code that are def statements, at any depth and at depth 0
DefLines(code)    == {i \in 1 .. Len(code) : code[i].k = "def"}
TopDefLines(code) == {i \in DefLines(code) : code[i].d = 0}

\* C1: when the function step of an add_function call has succeeded and its
\* test step fails, the step that ends the call leaves the script list as it
\* was: no script and no suite is appended.
C1_NoPartialSuite ==
    [][(pc = "generate_python_test" /\ ret'.raised # "") => scripts' = scripts]_vars

\* a call that failed in its test step, on a package already holding a script
C1_Witness ==
    /\ ret.op = "add_function"
    /\ ret.at = "generate_python_test"
    /\ ret.raised = "ValueError"
    /\ Len(scripts) = 1
    /\ pc = "idle"

\* C2: every unit held by a suite has a name extracted from exactly one def
\* of its own content, which parses; and a response whose code does not
\* yield exactly one name (no def, several, or no parse) makes generation
\* fail, without a unit.
C2_UnitNamesExtracted ==
    /\ \A u \in Units :
          /\ ast_parse_ok(u.content)
          /\ Cardinality(DefLines(u.content)) = 1
          /\ \E i \in DefLines(u.content) : u.name = u.content[i].n
    /\ (gen.extracted /\ ~(ast_parse_ok(gen.python_script)
                           /\ Cardinality(DefLines(gen.python_script)) = 1))
          => (~gen.returns /\ gen.raised # "")

\* C3: when the code taken from the response does not parse,
\* generate_python_code ends with the SyntaxError and returns no unit.
C3_SyntaxErrorPropagates ==
    (gen.extracted /\ ~ast_parse_ok(gen.python_script))
        => (gen.raised = "SyntaxError" /\ ~gen.returns /\ gen.unit = NoUnit)

\* C4: when write_files has completed, for every script on the list the
\* module file of the script holds the function contents of its suites in
\* order, and its test file the test contents.
C4_FilesHoldEveryScript ==
    pc = "write_done" =>
        \A i \in 1 .. Len(scripts) :
            /\ files[ModulePath(scripts[i].module_name)]
                  = File(function_contents(scripts[i].functions))
            /\ files[TestPath(scripts[i].module_name)]
                  = File(test_contents(scripts[i].functions))

\* C5: init_workspace on a workspace root holding an entry moves every
\* entry into one backup subdirectory, newly created and named by the
\* current second, and leaves in the root only the package directory and
\* the tests directory, each with an empty marker file.
C5_BackupOnInit ==
    [][(pc = "init" /\ ws # {}) =>
          /\ ~backup[clock].exists
          /\ backup'[clock] = Dir(ws)
          /\ ws' = {PackageName, TestsDir}
          /\ files'[InitPath(PackageName)] = File(<<>>)
          /\ files'[InitPath(TestsDir)] = File(<<>>)
          /\ pc' = "idle"]_vars

\* C8, the order of the steps.  The test prompt is sent only when the call
\* with the function prompt has returned; the runner exists only while
\* execute_tests waits for it, every script written; and execute_tests
\* returns from an exited runner, with its output.
C8_TestAfterFunction ==
    (call'.n # call.n /\ call'.messages # <<>> /\ Len(call'.messages) = 3)
        => /\ pc = "generate_python_test"
           /\ call.returns
           /\ Len(call.messages) = 2
           /\ call'.n = call.n + 1
           /\ client.requests = call.n

C8_SpawnAfterWrites ==
    /\ pc \in {"write_module", "write_test", "write_done"} => proc.state = "none"
    /\ proc.state # "none" =>
          (pc = "communicate" /\ op = "execute_tests" /\ wi = Len(scripts) + 1)

C8_ReturnAfterExit ==
    (op = "execute_tests" /\ pc' = "idle")
        => (proc.state = "exited" /\ ret'.logged = proc.stdout)

C8_Sequential ==
    /\ []C8_SpawnAfterWrites
    /\ [][C8_TestAfterFunction /\ C8_ReturnAfterExit]_vars

\* add_function, then execute_tests through to its return with the report
\* of a runner that failed
C8_Witness ==
    /\ ret.op = "execute_tests"
    /\ ret.logged = "failed"
    /\ Len(scripts) = 1
    /\ pc = "idle"

\* C9: every call of complete sends one request and writes one line to the
\* log; on success the line holds the request and the response, which is
\* returned; on a failure of the provider the line holds the error, that
\* error is raised and nothing is returned.
C9_OneRequestPerCall ==
    /\ client.requests = call.n
    /\ client.logged = call.n
    /\ call.messages # <<>> =>
          IF call.out.ok
          THEN /\ call.entry = [level |-> "INFO", messages |-> call.messages,
                                text |-> call.out.text, error |-> ""]
               /\ call.returns
               /\ call.returned = call.out.text
               /\ call.raised = ""
          ELSE /\ call.entry.level = "ERROR"
               /\ call.entry.error = call.out.err
               /\ call.raised = call.out.err
               /\ ~call.returns

\* the second call on a client fails at the provider
C9_Witness ==
    /\ call.n = 2
    /\ ~call.out.ok
    /\ call.raised = "RateLimitError"
    /\ Len(call.messages) = 3

\* C10: the script list is as long as the number of add_function calls that
\* succeeded, every script on it holds one suite and is named main, and a
\* step never removes, reorders or changes a script already on the list.
C10_Shape ==
    /\ Len(scripts) = n_ok
    /\ \A i \in 1 .. Len(scripts) :
          /\ Len(scripts[i].functions) = 1
          /\ scripts[i].module_name = "main"

C10_Grows ==
    /\ Len(scripts') >= Len(scripts)
    /\ \A i \in 1 .. Len(scripts) : scripts'[i] = scripts[i]

C10_ScriptList == []C10_Shape /\ [][C10_Grows]_vars

\* a failed call after a successful one: one script for two calls
C10_Witness ==
    /\ calls = 2
    /\ n_ok = 1
    /\ Len(scripts) = 1
    /\ ret.op = "add_function"
    /\ ret.raised # ""

\* m occurs in s at the 0-based position i
Occurs(s, m, i) ==
    /\ i >= 0
    /\ i + Len(m) <= Len(s)
    /\ \A k \in 1 .. Len(m) : s[i + k] = m[k]

Positions(s, m) == {i \in 0 .. Len(s) : Occurs(s, m, i)}

\* C6: extract_substring returns what lies strictly between the first start
\* marker and the first end marker after it when both occur in that order,
\* and the text itself when the start marker is absent, the end marker is
\* absent, or the end marker occurs only before the start marker.
C6_ExtractSubstring ==
    fn_out.done =>
        LET s  == fn_in.s
            sm == fn_in.start_marker
            em == fn_in.end_marker
            ps == Positions(s, sm)
            pe == Positions(s, em)
        IN  /\ (ps = {} \/ pe = {}) => fn_out.value = s
            /\ ps # {} =>
                 LET i     == Min(ps)
                     after == {j \in pe : j >= i + Len(sm)}
                 IN  /\ after # {} =>
                            fn_out.value = [k \in 1 .. (Min(after) - (i + Len(sm))) |->
                                               s[i + Len(sm) + k]]
                     /\ (pe # {} /\ \A j \in pe : j < i) => fn_out.value = s

\* an end marker stands before the start marker too, and a proper part of
\* the text is returned
C6_Witness ==
    /\ fn_out.done
    /\ Positions(fn_in.s, fn_in.start_marker) # {}
    /\ Len(fn_in.start_marker) > 0
    /\ \E j \in Positions(fn_in.s, fn_in.end_marker) :
           j < Min(Positions(fn_in.s, fn_in.start_marker))
    /\ \E j \in Positions(fn_in.s, fn_in.end_marker) :
           j >= Min(Positions(fn_in.s, fn_in.start_marker)) + Len(fn_in.start_marker)
    /\ fn_out.value # <<>>
    /\ fn_out.value # fn_in.s

\* C7 as stated: for a source that parses, the name of the sole top-level
\* def when there is exactly one top-level def, and None when there is no
\* def or there are two or more top-level defs.
C7_TopLevelOnly ==
    (fn_out.done /\ ast_parse_ok(fn_in.code)) =>
        /\ fn_out.raised = ""
        /\ Cardinality(TopDefLines(fn_in.code)) = 1 =>
              \E i \in TopDefLines(fn_in.code) : fn_out.value = fn_in.code[i].n
        /\ (DefLines(fn_in.code) = {} \/ Cardinality(TopDefLines(fn_in.code)) >= 2) =>
              fn_out.value = NoneVal

\* C7 amended: for a source that parses, the name of the sole def when the
\* source holds exactly one def counting every nesting depth, and None when
\* it holds no def or two or more of them; async defs are not counted.
C7_EveryDepth ==
    (fn_out.done /\ ast_parse_ok(fn_in.code)) =>
        /\ fn_out.raised = ""
        /\ Cardinality(DefLines(fn_in.code)) = 1 =>
              \E i \in DefLines(fn_in.code) : fn_out.value = fn_in.code[i].n
        /\ Cardinality(DefLines(fn_in.code)) # 1 => fn_out.value = NoneVal

\* one top-level def holding a nested def: None is returned
C7_Witness ==
    /\ fn_out.done
    /\ ast_parse_ok(fn_in.code)
    /\ Cardinality(TopDefLines(fn_in.code)) = 1
    /\ Cardinality(DefLines(fn_in.code)) = 2
    /\ fn_out.value = NoneVal

====
